---- MODULE Spec2Model ----
(***************************************************************************)
(* A model of the libsql-orm query builder (libsql-orm/src/query.rs):      *)
(* the QueryBuilder record, its configuration calls, the SQL emission      *)
(* (build / build_count and the recursive filter renderer), the Clone      *)
(* impl and the execution calls against the database collaborator.         *)
(*                                                                         *)
(* A Rust String is modelled as a sequence of text fragments: every        *)
(* push_str / format! argument is one fragment, and concatenation of       *)
(* Strings is concatenation of sequences.  The placeholder the renderer    *)
(* pushes is the one-character fragment "?" (the literal "? AND ?" is the  *)
(* three fragments "?", " AND ", "?"); raw text supplied by the caller     *)
(* (a Custom condition, a join condition) keeps the caller's fragments: a  *)
(* caller who writes a `?` of their own passes it inside a fragment        *)
(* ("age > ?") where only the renderer's placeholders are counted, and as  *)
(* a fragment of its own ("age > ", "?") where every `?` of the statement  *)
(* is counted.  A table, column or alias name is one fragment.  An Option  *)
(* is a sequence of length 0 (None) or 1 (Some).                           *)
(***************************************************************************)
EXTENDS Integers, Sequences, FiniteSets

VARIABLES
    qb,       \* the QueryBuilder value the caller holds (self)
    cp,       \* Option<QueryBuilder>: a clone of qb the caller holds
    cbuilt,   \* Option: what build() returned for the current clone
    reconfigured, \* the fields the caller has set on the clone since cloning
    built,    \* Option: what build() returned for the current qb
    counted,  \* Option: what build_count() returned for the current qb
    ret       \* what the last execution call on the current qb did

vars == <<qb, cp, cbuilt, reconfigured, built, counted, ret>>

None == <<>>
Some(x) == <<x>>

(***************************************************************************)
(* Bounds of the model.                                                    *)
(***************************************************************************)
MaxWhere == 2     \* longest WHERE list explored
MaxHaving == 1    \* longest HAVING list explored
MaxJoins == 2     \* longest JOIN list explored
MaxOrder == 2     \* longest ORDER BY list explored
MaxNum == 12      \* largest LIMIT / OFFSET argument explored
MaxRows == 2      \* longest row cursor the database answers with

(***************************************************************************)
(* Helpers on sequences.                                                   *)
(***************************************************************************)
RECURSIVE Concat(_)
Concat(ss) == IF ss = <<>> THEN <<>> ELSE Head(ss) \o Concat(Tail(ss))

\* [String]::join(sep) over a sequence of Strings.
RECURSIVE JoinWith(_, _)
JoinWith(ss, sep) ==
    IF ss = <<>> THEN <<>>
    ELSE IF Len(ss) = 1 THEN Head(ss)
    ELSE Head(ss) \o sep \o JoinWith(Tail(ss), sep)

\* A String holding one fragment.
Str(a) == <<a>>

(***************************************************************************)
(* Value and libsql::Value.                                                *)
(***************************************************************************)
\* An f64: finite (a number) or not (NaN, an infinity).
Finite(x) == [finite |-> TRUE, x |-> x]
NaN == [finite |-> FALSE]

VNull == [kind |-> "Null"]
VInteger(i) == [kind |-> "Integer", i |-> i]
VReal(f) == [kind |-> "Real", f |-> f]
VText(s) == [kind |-> "Text", s |-> s]
VBlob(b) == [kind |-> "Blob", bytes |-> b]
VBoolean(b) == [kind |-> "Boolean", b |-> b]

LNull == [native |-> "Null"]
LInteger(i) == [native |-> "Integer", i |-> i]
LReal(f) == [native |-> "Real", f |-> f]
LText(s) == [native |-> "Text", s |-> s]
LBlob(b) == [native |-> "Blob", bytes |-> b]

\* A plausible slip: a Boolean is bound by its name instead of as 0 / 1.
value_to_libsql_value_bool_as_text(value) ==
    CASE value.kind = "Null" -> LNull
      [] value.kind = "Integer" -> LInteger(value.i)
      [] value.kind = "Real" -> LReal(value.f)
      [] value.kind = "Text" -> LText(value.s)
      [] value.kind = "Blob" -> LBlob(value.bytes)
      [] value.kind = "Boolean" -> LText(IF value.b THEN "true" ELSE "false")

value_to_libsql_value(value) ==
    CASE value.kind = "Null" -> LNull
      [] value.kind = "Integer" -> LInteger(value.i)
      [] value.kind = "Real" -> LReal(value.f)
      [] value.kind = "Text" -> LText(value.s)
      [] value.kind = "Blob" -> LBlob(value.bytes)
      [] value.kind = "Boolean" -> LInteger(IF value.b THEN 1 ELSE 0)

(***************************************************************************)
(* Filter, FilterValue, FilterOperator (the filter tree).                  *)
(***************************************************************************)
FvSingle(v) == [shape |-> "Single", value |-> v]
FvMultiple(vs) == [shape |-> "Multiple", values |-> vs]
FvRange(lo, hi) == [shape |-> "Range", min |-> lo, max |-> hi]

Filter(column, operator, value) ==
    [column |-> column, operator |-> operator, value |-> value]

FSingle(f) == [tag |-> "Single", filter |-> f]
FAnd(fs) == [tag |-> "And", filters |-> fs]
FOr(fs) == [tag |-> "Or", filters |-> fs]
FNot(f) == [tag |-> "Not", filter |-> f]
FCustom(condition) == [tag |-> "Custom", condition |-> condition]

\* Display of Operator, Aggregate, JoinType, SortOrder (crate types whose
\* Display impls live outside query.rs).
fmt_Operator(op) ==
    CASE op = "Eq" -> "="
      [] op = "Ne" -> "!="
      [] op = "Gt" -> ">"
      [] op = "Lt" -> "<"
      [] op = "Like" -> "LIKE"
      [] op = "In" -> "IN"
      [] op = "Between" -> "BETWEEN"
      [] op = "IsNull" -> "IS NULL"
      [] op = "IsNotNull" -> "IS NOT NULL"

fmt_Aggregate(f) ==
    CASE f = "Count" -> "COUNT"
      [] f = "Sum" -> "SUM"
      [] f = "Avg" -> "AVG"
      [] f = "Min" -> "MIN"
      [] f = "Max" -> "MAX"

fmt_JoinType(jt) ==
    CASE jt = "Inner" -> "INNER JOIN"
      [] jt = "Left" -> "LEFT JOIN"
      [] jt = "Right" -> "RIGHT JOIN"
      [] jt = "Full" -> "FULL JOIN"

fmt_SortOrder(o) == IF o = "Asc" THEN "ASC" ELSE "DESC"

\* Display of a u32 in decimal, one fragment per digit.
Digit == <<"0", "1", "2", "3", "4", "5", "6", "7", "8", "9">>
RECURSIVE fmt_u32(_)
fmt_u32(n) ==
    IF n < 10 THEN <<Digit[n + 1]>>
    ELSE fmt_u32(n \div 10) \o <<Digit[(n % 10) + 1]>>

(***************************************************************************)
(* SQL emission.  Every renderer returns Ok((sql, params)); none of them   *)
(* has an error path, so the Result is modelled by its Ok value.           *)
(***************************************************************************)
Out(sql, params) == [sql |-> sql, params |-> params]

\* A plausible slip: the Range arm pushes the upper bound before the lower.
build_filter_value_range_swapped(value) ==
    CASE value.shape = "Single" ->
            Out(<<"?">>, <<value_to_libsql_value(value.value)>>)
      [] value.shape = "Multiple" ->
            Out(<<"(">>
                    \o JoinWith([i \in 1..Len(value.values) |-> <<"?">>], <<", ">>)
                    \o <<")">>,
                [i \in 1..Len(value.values) |-> value_to_libsql_value(value.values[i])])
      [] value.shape = "Range" ->
            Out(<<"?", " AND ", "?">>,
                <<value_to_libsql_value(value.max),
                  value_to_libsql_value(value.min)>>)

\* A plausible slip: the Multiple arm emits one placeholder for the whole
\* list and binds only its first value.
build_filter_value_multiple_as_one(value) ==
    CASE value.shape = "Single" ->
            Out(<<"?">>, <<value_to_libsql_value(value.value)>>)
      [] value.shape = "Multiple" ->
            Out(<<"(", "?", ")">>,
                IF value.values = <<>> THEN <<>>
                ELSE <<value_to_libsql_value(value.values[1])>>)
      [] value.shape = "Range" ->
            Out(<<"?", " AND ", "?">>,
                <<value_to_libsql_value(value.min),
                  value_to_libsql_value(value.max)>>)

\* The FilterValue arm of build_filter (lines 583-604).
build_filter_value(value) ==
    CASE value.shape = "Single" ->
            Out(<<"?">>, <<value_to_libsql_value(value.value)>>)
      [] value.shape = "Multiple" ->
            Out(<<"(">>
                    \o JoinWith([i \in 1..Len(value.values) |-> <<"?">>], <<", ">>)
                    \o <<")">>,
                [i \in 1..Len(value.values) |-> value_to_libsql_value(value.values[i])])
      [] value.shape = "Range" ->
            Out(<<"?", " AND ", "?">>,
                <<value_to_libsql_value(value.min),
                  value_to_libsql_value(value.max)>>)

\* A plausible slip: only IsNull is special-cased, IsNotNull falls through
\* to the arm that binds the value.
build_filter_notnull_binds(filter) ==
    CASE filter.operator = "IsNull" ->
            Out(<<filter.column, " IS NULL">>, <<>>)
      [] OTHER ->
            LET v == build_filter_value(filter.value)
            IN  Out(<<filter.column, " ", fmt_Operator(filter.operator), " ">> \o v.sql,
                    v.params)

build_filter(filter) ==
    CASE filter.operator = "IsNull" ->
            Out(<<filter.column, " IS NULL">>, <<>>)
      [] filter.operator = "IsNotNull" ->
            Out(<<filter.column, " IS NOT NULL">>, <<>>)
      [] OTHER ->
            LET v == build_filter_value(filter.value)
            IN  Out(<<filter.column, " ", fmt_Operator(filter.operator), " ">> \o v.sql,
                    v.params)

\* The loop shared by the And / Or arms and by build_where_clause: render
\* each element, push sep between elements, extend params in order.
RECURSIVE build_filter_operator(_)
RenderList(filters, sep) ==
    LET parts == [i \in 1..Len(filters) |-> build_filter_operator(filters[i])]
    IN  Out(JoinWith([i \in 1..Len(parts) |-> parts[i].sql], <<sep>>),
            Concat([i \in 1..Len(parts) |-> parts[i].params]))

\* A plausible slip: the Or arm forgets its parentheses.
RECURSIVE build_filter_operator_or_bare(_)
build_filter_operator_or_bare(filter) ==
    CASE filter.tag = "Single" -> build_filter(filter.filter)
      [] filter.tag = "And" ->
            LET r == RenderList(filter.filters, " AND ")
            IN  Out(<<"(">> \o r.sql \o <<")">>, r.params)
      [] filter.tag = "Or" -> RenderList(filter.filters, " OR ")
      [] filter.tag = "Not" ->
            LET r == build_filter_operator(filter.filter)
            IN  Out(<<"NOT (">> \o r.sql \o <<")">>, r.params)
      [] filter.tag = "Custom" -> Out(filter.condition, <<>>)

build_filter_operator(filter) ==
    CASE filter.tag = "Single" -> build_filter(filter.filter)
      [] filter.tag = "And" ->
            LET r == RenderList(filter.filters, " AND ")
            IN  Out(<<"(">> \o r.sql \o <<")">>, r.params)
      [] filter.tag = "Or" ->
            LET r == RenderList(filter.filters, " OR ")
            IN  Out(<<"(">> \o r.sql \o <<")">>, r.params)
      [] filter.tag = "Not" ->
            LET r == build_filter_operator(filter.filter)
            IN  Out(<<"NOT (">> \o r.sql \o <<")">>, r.params)
      [] filter.tag = "Custom" -> Out(filter.condition, <<>>)

build_where_clause(filters) == RenderList(filters, " AND ")

(***************************************************************************)
(* QueryBuilder: construction and configuration calls.  Each call takes    *)
(* the builder by value (mut self) and returns the changed builder.        *)
(***************************************************************************)
JoinClause(join_type, table, alias, condition) ==
    [join_type |-> join_type, table |-> table, alias |-> alias,
     condition |-> condition]

AggregateClause(function, column, alias) ==
    [function |-> function, column |-> column, alias |-> alias]

Sort(column, order) == [column |-> column, order |-> order]

new(table) ==
    [table |-> table,
     select_columns |-> <<"*">>,
     joins |-> <<>>,
     where_clauses |-> <<>>,
     group_by |-> <<>>,
     having |-> <<>>,
     order_by |-> <<>>,
     limit |-> None,
     offset |-> None,
     distinct |-> FALSE,
     aggregate |-> None]

select(b, columns) == [b EXCEPT !.select_columns = columns]

join(b, join_type, table, condition) ==
    [b EXCEPT !.joins = Append(@, JoinClause(join_type, table, None, condition))]

join_as(b, join_type, table, alias, condition) ==
    [b EXCEPT !.joins =
        Append(@, JoinClause(join_type, table, Some(alias), condition))]

where(b, filter) == [b EXCEPT !.where_clauses = Append(@, filter)]

group_by(b, columns) == [b EXCEPT !.group_by = columns]

having(b, filter) == [b EXCEPT !.having = Append(@, filter)]

order_by(b, sort) == [b EXCEPT !.order_by = Append(@, sort)]

order_by_multiple(b, sorts) == [b EXCEPT !.order_by = @ \o sorts]

limit(b, n) == [b EXCEPT !.limit = Some(n)]

offset(b, n) == [b EXCEPT !.offset = Some(n)]

distinct(b, d) == [b EXCEPT !.distinct = d]

aggregate(b, function, column, alias) ==
    [b EXCEPT !.aggregate = Some(AggregateClause(function, column, alias))]

select_all(b) == [b EXCEPT !.select_columns = <<"*">>]

select_columns(b, columns) == [b EXCEPT !.select_columns = columns]

select_column(b, column) == [b EXCEPT !.select_columns = <<column>>]

select_count(b) == [b EXCEPT !.select_columns = <<"COUNT(*)">>]

select_aggregate(b, agg) == [b EXCEPT !.select_columns = <<agg>>]

select_distinct(b, column) ==
    [b EXCEPT !.select_columns = <<column>>, !.distinct = TRUE]

\* The params argument is not used by the body.
where_condition(b, condition, params) ==
    [b EXCEPT !.where_clauses = Append(@, FCustom(condition))]

search(b, field, query) ==
    [b EXCEPT !.where_clauses =
        Append(@, FCustom(<<field, " LIKE '%", query, "%'">>))]

with_filter(b, filter) ==
    [b EXCEPT !.where_clauses = Append(@, FSingle(filter))]

RECURSIVE with_filters(_, _)
with_filters(b, filters) ==
    IF filters = <<>> THEN b
    ELSE with_filters(with_filter(b, Head(filters)), Tail(filters))

RECURSIVE with_sorts(_, _)
with_sorts(b, sorts) ==
    IF sorts = <<>> THEN b
    ELSE with_sorts(order_by(b, Head(sorts)), Tail(sorts))

\* The params argument is not used by the body.
having_condition(b, condition, params) ==
    [b EXCEPT !.having = Append(@, FCustom(condition))]

(***************************************************************************)
(* build and build_count.                                                  *)
(***************************************************************************)
\* A plausible slip: an explicit column list takes priority over the
\* aggregate clause.
SelectClause_columns_win(b) ==
    <<"SELECT ">>
        \o (IF b.distinct THEN <<"DISTINCT ">> ELSE <<>>)
        \o (IF b.aggregate # None /\ b.select_columns = <<"*">>
             THEN LET agg == b.aggregate[1]
                  IN  <<fmt_Aggregate(agg.function), "(", agg.column, ")">>
                          \o (IF agg.alias # None
                               THEN <<" AS ", agg.alias[1]>>
                               ELSE <<>>)
             ELSE JoinWith([i \in 1..Len(b.select_columns) |-> Str(b.select_columns[i])], <<", ">>))

\* SELECT [DISTINCT] projection (lines 391-404).
SelectClause(b) ==
    <<"SELECT ">>
        \o (IF b.distinct THEN <<"DISTINCT ">> ELSE <<>>)
        \o (IF b.aggregate # None
             THEN LET agg == b.aggregate[1]
                  IN  <<fmt_Aggregate(agg.function), "(", agg.column, ")">>
                          \o (IF agg.alias # None
                               THEN <<" AS ", agg.alias[1]>>
                               ELSE <<>>)
             ELSE JoinWith([i \in 1..Len(b.select_columns) |-> Str(b.select_columns[i])], <<", ">>))

FromClause(b) == <<" FROM ", b.table>>

JoinText(j) ==
    <<" ", fmt_JoinType(j.join_type), " ", j.table>>
        \o (IF j.alias # None THEN <<" AS ", j.alias[1]>> ELSE <<>>)
        \o <<" ON ">> \o j.condition

JoinClauses(b) == Concat([i \in 1..Len(b.joins) |-> JoinText(b.joins[i])])

\* " WHERE " / " HAVING " followed by the rendered list, when non-empty.
FilterClause(keyword, filters) ==
    IF filters # <<>>
    THEN LET r == build_where_clause(filters)
         IN  Out(<<keyword>> \o r.sql, r.params)
    ELSE Out(<<>>, <<>>)

GroupByClause(b) ==
    IF b.group_by # <<>>
    THEN <<" GROUP BY ">> \o JoinWith([i \in 1..Len(b.group_by) |-> Str(b.group_by[i])], <<", ">>)
    ELSE <<>>

OrderByClause(b) ==
    IF b.order_by # <<>>
    THEN <<" ORDER BY ">>
            \o JoinWith([i \in 1..Len(b.order_by) |->
                            <<b.order_by[i].column, " ",
                              fmt_SortOrder(b.order_by[i].order)>>],
                        <<", ">>)
    ELSE <<>>

LimitClause(b) ==
    IF b.limit # None THEN <<" LIMIT ">> \o fmt_u32(b.limit[1]) ELSE <<>>

OffsetClause(b) ==
    IF b.offset # None THEN <<" OFFSET ">> \o fmt_u32(b.offset[1]) ELSE <<>>

\* A plausible slip: OFFSET is pushed before LIMIT.
build_offset_first(b) ==
    LET w == FilterClause(" WHERE ", b.where_clauses)
        h == FilterClause(" HAVING ", b.having)
    IN  Out(SelectClause(b) \o FromClause(b) \o JoinClauses(b) \o w.sql
                \o GroupByClause(b) \o h.sql \o OrderByClause(b)
                \o OffsetClause(b) \o LimitClause(b),
            w.params \o h.params)

build(b) ==
    LET w == FilterClause(" WHERE ", b.where_clauses)
        h == FilterClause(" HAVING ", b.having)
    IN  Out(SelectClause(b) \o FromClause(b) \o JoinClauses(b) \o w.sql
                \o GroupByClause(b) \o h.sql \o OrderByClause(b)
                \o LimitClause(b) \o OffsetClause(b),
            w.params \o h.params)

\* A plausible slip: the count statement keeps the LIMIT / OFFSET tail of
\* the statement it was copied from.
build_count_keeps_limit(b) ==
    LET w == FilterClause(" WHERE ", b.where_clauses)
        h == FilterClause(" HAVING ", b.having)
    IN  Out(<<"SELECT COUNT(*)">> \o FromClause(b) \o JoinClauses(b) \o w.sql
                \o GroupByClause(b) \o h.sql \o LimitClause(b) \o OffsetClause(b),
            w.params \o h.params)

build_count(b) ==
    LET w == FilterClause(" WHERE ", b.where_clauses)
        h == FilterClause(" HAVING ", b.having)
    IN  Out(<<"SELECT COUNT(*)">> \o FromClause(b) \o JoinClauses(b) \o w.sql
                \o GroupByClause(b) \o h.sql,
            w.params \o h.params)

\* The sub-query is built and its text spliced into a Custom condition; the
\* parameters build returned for it are dropped (`let (subquery_sql, _)`).
where_in(b, field, subquery) ==
    [b EXCEPT !.where_clauses =
        Append(@, FCustom(<<field, " IN (">> \o build(subquery).sql \o <<")">>))]

(***************************************************************************)
(* The database collaborator and the execution calls.                      *)
(*                                                                         *)
(* db.query(sql, params) answers with an error or with a cursor; a cursor  *)
(* is the sequence of what rows.next() yields before it yields None: rows, *)
(* or a fetch error.  A row is a sequence of columns, each with an         *)
(* optional name and an optional value (None when get_value fails).        *)
(***************************************************************************)
Column(name, value) == [name |-> name, value |-> value]
RowItem(columns) == [item |-> "row", columns |-> columns]
FetchError == [item |-> "error"]
QueryFailed == [answer |-> "error"]
Cursor(items) == [answer |-> "cursor", items |-> items]

Statement(out) == [sql |-> out.sql, params |-> out.params]

Ok(value) == [ok |-> TRUE, value |-> value]
Err(error) == [ok |-> FALSE, error |-> error]

\* serde_json::Value, as far as libsql_value_to_json_value makes them.
JNull == [json |-> "Null"]
JInteger(i) == [json |-> "Number", int |-> TRUE, i |-> i]
JFloat(x) == [json |-> "Number", int |-> FALSE, x |-> x]
JString(t) == [json |-> "String", s |-> t]
JArray(a) == [json |-> "Array", items |-> a]

libsql_value_to_json_value(value) ==
    CASE value.native = "Null" -> JNull
      [] value.native = "Integer" -> JInteger(value.i)
      [] value.native = "Real" -> IF value.f.finite THEN JFloat(value.f.x) ELSE JNull
      [] value.native = "Text" -> JString(value.s)
      [] value.native = "Blob" ->
            JArray([k \in 1..Len(value.bytes) |-> JInteger(value.bytes[k])])

\* The map execute builds from one row (lines 633-643): the named columns,
\* a value that cannot be read taken as Null, a later column of the same
\* name replacing an earlier one.
RowMap(columns) ==
    LET named == {k \in 1..Len(columns) : columns[k].name # None}
        names == {columns[k].name[1] : k \in named}
        last(n) == CHOOSE k \in named :
                        /\ columns[k].name[1] = n
                        /\ \A j \in named : columns[j].name[1] = n => j <= k
    IN  [n \in names |->
            libsql_value_to_json_value(
                IF columns[last(n)].value = None THEN LNull
                ELSE columns[last(n)].value[1])]

\* serde_json::from_value::<T> for the record type the caller asks for,
\* here struct T { id: i64 }: an integer under "id", other keys ignored.
FitsT(map) == "id" \in DOMAIN map /\ map["id"].json = "Number" /\ map["id"].int
IntoT(map) == [id |-> map["id"].i]

\* A plausible slip: a row that cannot be fetched or converted ends the
\* loop, and the records made so far are returned.
RECURSIVE Materialize_keeps_partial(_, _)
Materialize_keeps_partial(items, results) ==
    IF items = <<>> THEN Ok(results)
    ELSE IF Head(items).item = "error" THEN Ok(results)
    ELSE LET map == RowMap(Head(items).columns)
         IN  IF FitsT(map)
             THEN Materialize_keeps_partial(Tail(items), Append(results, IntoT(map)))
             ELSE Ok(results)

\* The while-let loop of execute (lines 631-648).
RECURSIVE Materialize(_, _)
Materialize(items, results) ==
    IF items = <<>> THEN Ok(results)
    ELSE IF Head(items).item = "error" THEN Err("Fetch")
    ELSE LET map == RowMap(Head(items).columns)
         IN  IF FitsT(map)
             THEN Materialize(Tail(items), Append(results, IntoT(map)))
             ELSE Err("Deserialize")

\* What an execution call did: the statements it issued, in order, and the
\* value it returned.
Did(stmts, result) == [stmts |-> stmts, result |-> result]

execute(b, answer) ==
    Did(<<Statement(build(b))>>,
        IF answer.answer = "error" THEN Err("Db")
        ELSE Materialize(answer.items, <<>>))

\* row.get_value(0) read as a count (lines 363-368, 666-671): Some(i) for an
\* Integer in the first column, None otherwise.
\* The cast `i as u64` is the identity on the counts drawn here, none of
\* which is negative.
FirstInteger(columns) ==
    IF columns # <<>> /\ columns[1].value # None
        /\ columns[1].value[1].native = "Integer"
    THEN Some(columns[1].value[1].i)
    ELSE None

\* A plausible slip: the count is read as execute_paginated reads it, a
\* missing row or a first column that is no integer counting as zero.
execute_count_or_zero(b, answer) ==
    Did(<<Statement(build_count(b))>>,
        IF answer.answer = "error" THEN Err("Db")
        ELSE IF answer.items = <<>> THEN Ok(0)
        ELSE IF Head(answer.items).item = "error" THEN Err("Fetch")
        ELSE LET n == FirstInteger(Head(answer.items).columns)
             IN  IF n = None THEN Ok(0) ELSE Ok(n[1]))

execute_count(b, answer) ==
    Did(<<Statement(build_count(b))>>,
        IF answer.answer = "error" THEN Err("Db")
        ELSE IF answer.items = <<>> THEN Err("Query: No count result")
        ELSE IF Head(answer.items).item = "error" THEN Err("Fetch")
        ELSE LET n == FirstInteger(Head(answer.items).columns)
             IN  IF n = None THEN Err("Query: Failed to get count")
                 ELSE Ok(n[1]))

execute_aggregate(b, answer) ==
    Did(<<Statement(build(b))>>,
        IF answer.answer = "error" THEN Err("Db")
        ELSE IF \E k \in 1..Len(answer.items) : answer.items[k].item = "error"
        THEN Err("Fetch")
        ELSE Ok(answer.items))

\* A plausible slip in a field-by-field Clone: one collection is left at its
\* default instead of being copied.
clone_forgets_order_by(b) ==
    [table |-> b.table,
     select_columns |-> b.select_columns,
     joins |-> b.joins,
     where_clauses |-> b.where_clauses,
     group_by |-> b.group_by,
     having |-> b.having,
     order_by |-> <<>>,
     limit |-> b.limit,
     offset |-> b.offset,
     distinct |-> b.distinct,
     aggregate |-> b.aggregate]

clone(b) ==
    [table |-> b.table,
     select_columns |-> b.select_columns,
     joins |-> b.joins,
     where_clauses |-> b.where_clauses,
     group_by |-> b.group_by,
     having |-> b.having,
     order_by |-> b.order_by,
     limit |-> b.limit,
     offset |-> b.offset,
     distinct |-> b.distinct,
     aggregate |-> b.aggregate]

\* The pagination collaborator, by what its limit() and offset() return.
Pagination(l, o) == [limit |-> l, offset |-> o]

PaginatedResult(data, pagination, total) ==
    [data |-> data, pagination |-> pagination, total |-> total]

\* A plausible slip: the count is read as execute_count reads it, a missing
\* row or a first column that is no integer failing the call.
Paginate_strict(count_stmt, count_answer, data, pagination) ==
    LET n == FirstInteger(Head(count_answer.items).columns)
    IN  IF count_answer.answer = "error" THEN Did(<<count_stmt>>, Err("Db"))
        ELSE IF count_answer.items = <<>>
        THEN Did(<<count_stmt>>, Err("Query: No count result"))
        ELSE IF Head(count_answer.items).item = "error"
        THEN Did(<<count_stmt>>, Err("Fetch"))
        ELSE IF n = None THEN Did(<<count_stmt>>, Err("Query: Failed to get count"))
        ELSE IF ~data.result.ok THEN Did(<<count_stmt>> \o data.stmts, data.result)
        ELSE Did(<<count_stmt>> \o data.stmts,
                 Ok(PaginatedResult(data.result.value, pagination, n[1])))

\* execute_paginated once its two statements are built: the count statement
\* is issued and its first row read (lines 664-675), then the data statement
\* (line 683; `data` is what execute did with it) and the envelope made.
Paginate(count_stmt, count_answer, data, pagination) ==
    LET total ==
            IF count_answer.items = <<>> THEN 0
            ELSE LET n == FirstInteger(Head(count_answer.items).columns)
                 IN  IF n = None THEN 0 ELSE n[1]
    IN  IF count_answer.answer = "error" THEN Did(<<count_stmt>>, Err("Db"))
        ELSE IF count_answer.items # <<>> /\ Head(count_answer.items).item = "error"
        THEN Did(<<count_stmt>>, Err("Fetch"))
        ELSE IF ~data.result.ok THEN Did(<<count_stmt>> \o data.stmts, data.result)
        ELSE Did(<<count_stmt>> \o data.stmts,
                 Ok(PaginatedResult(data.result.value, pagination, total)))

\* The other design: the total is counted over the rows the builder
\* selects, the count statement built from the builder itself.
execute_paginated_counts_self(b, pagination, count_answer, data_answer) ==
    Paginate(Statement(build_count(b)), count_answer,
             execute(offset(limit(clone(b), pagination.limit), pagination.offset),
                     data_answer),
             pagination)

execute_paginated(b, pagination, count_answer, data_answer) ==
    LET count_builder == select(new(b.table), <<"COUNT(*) as count">>)
        data_builder == offset(limit(clone(b), pagination.limit), pagination.offset)
    IN  Paginate(Statement(build_count(count_builder)), count_answer,
                 execute(data_builder, data_answer), pagination)

(***************************************************************************)
(* The arguments the calls are explored with.                              *)
(***************************************************************************)
F_gt == FSingle(Filter("x", "Gt", FvSingle(VInteger(5))))
F_y1 == FSingle(Filter("y", "Eq", FvSingle(VInteger(1))))
F_in ==
    FSingle(Filter("id", "In", FvMultiple(<<VInteger(1), VInteger(2), VInteger(3)>>)))
F_between ==
    FSingle(Filter("col", "Between", FvRange(VInteger(10), VInteger(20))))
F_null == FSingle(Filter("d", "IsNull", FvSingle(VInteger(7))))
F_notnull ==
    FSingle(Filter("d", "IsNotNull", FvMultiple(<<VInteger(8), VInteger(9)>>)))
F_like == FSingle(Filter("name", "Like", FvRange(VText("a"), VNull)))
F_custom == FCustom(<<"active = 1">>)
F_and ==
    FAnd(<<F_gt, FOr(<<F_y1, FSingle(Filter("y", "Eq", FvSingle(VInteger(2))))>>)>>)
F_not == FNot(FSingle(Filter("a", "Eq", FvSingle(VInteger(1)))))
F_deep ==
    FOr(<<F_null, FNot(FAnd(<<F_between, F_custom, F_in>>)),
          FSingle(Filter("flag", "Ne", FvSingle(VBoolean(TRUE))))>>)
F_sum == FSingle(Filter("total", "Gt", FvSingle(VReal(Finite(1000)))))

FilterTrees ==
    {F_gt, F_in, F_between, F_null, F_notnull, F_like, F_custom, F_and, F_not,
     F_deep, FAnd(<<>>)}

(***************************************************************************)
(* State machine.  A configuration call consumes the builder and returns a *)
(* new value, on which no terminal call has been made yet; a terminal call *)
(* borrows the builder (&self) and returns a value.                        *)
(***************************************************************************)
NoRet ==
    [op |-> "none", args |-> <<>>, answers |-> <<>>, stmts |-> <<>>,
     result |-> [ok |-> TRUE, value |-> <<>>]]

InitWith(tables) ==
    /\ \E t \in tables : qb = new(t)
    /\ cp = None
    /\ cbuilt = None
    /\ reconfigured = {}
    /\ built = None
    /\ counted = None
    /\ ret = NoRet

Init == InitWith({"users", "orders"})

\* The frame of a configuration call: the new builder value has had no
\* terminal call made on it; a clone the caller holds is untouched.
Fresh ==
    /\ built' = None
    /\ counted' = None
    /\ ret' = NoRet
    /\ UNCHANGED <<cp, cbuilt, reconfigured>>

Where(trees) ==
    /\ Len(qb.where_clauses) < MaxWhere
    /\ \E f \in trees : (qb' = where(qb, f) /\ Fresh)

Having(trees) ==
    /\ Len(qb.having) < MaxHaving
    /\ \E f \in trees : (qb' = having(qb, f) /\ Fresh)

Filters ==
    {Filter("z", "Lt", FvSingle(VInteger(3))),
     Filter("k", "In", FvMultiple(<<VText("a"), VText("b")>>)),
     Filter("e", "IsNull", FvSingle(VNull))}

WithFilter ==
    /\ Len(qb.where_clauses) < MaxWhere
    /\ \E f \in Filters : (qb' = with_filter(qb, f) /\ Fresh)

WithFilters ==
    /\ Len(qb.where_clauses) + 2 <= MaxWhere
    /\ (qb' = with_filters(qb, <<F_between.filter, F_notnull.filter>>) /\ Fresh)

WhereCondition(condition) ==
    /\ Len(qb.where_clauses) < MaxWhere
    /\ (qb' = where_condition(qb, condition, <<LInteger(18)>>) /\ Fresh)

Search ==
    /\ Len(qb.where_clauses) < MaxWhere
    /\ (qb' = search(qb, "name", "bob") /\ Fresh)

HavingCondition(condition) ==
    /\ Len(qb.having) < MaxHaving
    /\ (qb' = having_condition(qb, condition, <<LInteger(2)>>) /\ Fresh)

Build ==
    /\ built' = Some(build(qb))
    /\ UNCHANGED <<qb, cp, cbuilt, reconfigured, counted, ret>>

BuildCount ==
    /\ counted' = Some(build_count(qb))
    /\ UNCHANGED <<qb, cp, cbuilt, reconfigured, built, ret>>

\* What the database may answer.
Row_id(n) == RowItem(<<Column(Some("id"), Some(LInteger(n)))>>)
Row_text == RowItem(<<Column(Some("id"), Some(LText("x")))>>)
Row_unreadable == RowItem(<<Column(None, None)>>)
Items == {Row_id(3), Row_id(0), Row_text, FetchError}

RECURSIVE SeqsUpTo(_, _)
SeqsUpTo(S, n) ==
    IF n = 0 THEN {<<>>}
    ELSE LET shorter == SeqsUpTo(S, n - 1)
         IN  shorter \cup {Append(q, x) : q \in shorter, x \in S}

Answers ==
    {QueryFailed} \cup {Cursor(items) : items \in SeqsUpTo(Items, MaxRows)}
        \cup {Cursor(<<RowItem(<<>>)>>), Cursor(<<Row_unreadable>>)}

\* Answers to a count statement: the calls read the first item only.
CountAnswers ==
    {QueryFailed}
        \cup {Cursor(items) :
                items \in SeqsUpTo(Items \cup {RowItem(<<>>), Row_unreadable}, 1)}
        \cup {Cursor(<<Row_id(3), Row_text>>)}

\* A call made: its name, its arguments besides the builder, what the
\* database answered, the statements issued and the value returned.
Called(op, args, answers, did) ==
    [op |-> op, args |-> args, answers |-> answers, stmts |-> did.stmts,
     result |-> did.result]

Execute ==
    /\ \E answer \in Answers : ret' = Called("execute", <<>>, <<answer>>, execute(qb, answer))
    /\ UNCHANGED <<qb, cp, cbuilt, reconfigured, built, counted>>

ExecuteCount ==
    /\ \E answer \in CountAnswers :
            ret' = Called("execute_count", <<>>, <<answer>>, execute_count(qb, answer))
    /\ UNCHANGED <<qb, cp, cbuilt, reconfigured, built, counted>>

ExecuteAggregate ==
    /\ \E answer \in Answers :
            ret' = Called("execute_aggregate", <<>>, <<answer>>,
                          execute_aggregate(qb, answer))
    /\ UNCHANGED <<qb, cp, cbuilt, reconfigured, built, counted>>

\* A plausible slip: the page is set on the builder itself instead of on a
\* clone of it.
ExecutePaginated_pages_self(paginations, count_answers, data_answers) ==
    \E pagination \in paginations, count_answer \in count_answers,
       data_answer \in data_answers :
        /\ ret' = Called("execute_paginated", <<pagination>>,
                         <<count_answer, data_answer>>,
                         execute_paginated(qb, pagination, count_answer, data_answer))
        /\ qb' = offset(limit(qb, pagination.limit), pagination.offset)
        /\ UNCHANGED <<cp, cbuilt, reconfigured, built, counted>>

ExecutePaginated(paginations, count_answers, data_answers) ==
    /\ \E pagination \in paginations, count_answer \in count_answers,
          data_answer \in data_answers :
            ret' = Called("execute_paginated", <<pagination>>,
                          <<count_answer, data_answer>>,
                          execute_paginated(qb, pagination, count_answer, data_answer))
    /\ UNCHANGED <<qb, cp, cbuilt, reconfigured, built, counted>>

(***************************************************************************)
(* The filter renderer: WHERE / HAVING lists of every tree shape.          *)
(***************************************************************************)
NextFilter ==
    \/ Where(FilterTrees)
    \/ Having({F_sum})
    \/ Having({F_not})
    \/ Having({F_notnull})
    \/ WithFilter
    \/ WithFilters
    \/ WhereCondition(<<"age > ?">>)
    \/ Search
    \/ HavingCondition(<<"COUNT(*) > ?">>)
    \/ Build
    \/ BuildCount

SpecFilter == InitWith({"users"}) /\ [][NextFilter]_vars

(***************************************************************************)
(* The other configuration calls.                                          *)
(***************************************************************************)
Cols_idname == <<"id", "name">>
Join_orders == JoinClause("Inner", "orders", None, <<"orders.user_id = users.id">>)
Join_posts == JoinClause("Left", "posts", Some("p"), <<"p.user_id = users.id">>)
Sort_name == Sort("name", "Asc")
Sort_id == Sort("id", "Desc")
Nums == {0, 1, MaxNum}
ColumnLists == {<<"dept">>, <<"dept", "role">>}
Select == (qb' = select(qb, Cols_idname) /\ Fresh)

Join ==
    /\ Len(qb.joins) < MaxJoins
    /\ qb' = join(qb, Join_orders.join_type, Join_orders.table,
                  Join_orders.condition)
    /\ Fresh

JoinAs ==
    /\ Len(qb.joins) < MaxJoins
    /\ qb' = join_as(qb, Join_posts.join_type, Join_posts.table,
                     Join_posts.alias[1], Join_posts.condition)
    /\ Fresh

GroupBy(args) == \E cols \in args : (qb' = group_by(qb, cols) /\ Fresh)

OrderBy(sorts) ==
    /\ Len(qb.order_by) < MaxOrder
    /\ \E sort \in sorts : (qb' = order_by(qb, sort) /\ Fresh)

OrderByMultiple ==
    /\ Len(qb.order_by) + 2 <= MaxOrder
    /\ (qb' = order_by_multiple(qb, <<Sort_id, Sort_name>>) /\ Fresh)

WithSorts ==
    /\ Len(qb.order_by) + 2 <= MaxOrder
    /\ (qb' = with_sorts(qb, <<Sort_name, Sort_id>>) /\ Fresh)

Limit(args) == \E n \in args : (qb' = limit(qb, n) /\ Fresh)

Offset(args) == \E n \in args : (qb' = offset(qb, n) /\ Fresh)

Distinct == \E d \in BOOLEAN : (qb' = distinct(qb, d) /\ Fresh)

Aggregate(aggs) ==
    \E a \in aggs : (qb' = aggregate(qb, a.function, a.column, a.alias) /\ Fresh)

SelectAll == (qb' = select_all(qb) /\ Fresh)

SelectColumns == (qb' = select_columns(qb, <<"email", "name">>) /\ Fresh)

SelectColumn == (qb' = select_column(qb, "name") /\ Fresh)

SelectCount == (qb' = select_count(qb) /\ Fresh)

SelectAggregate == (qb' = select_aggregate(qb, "MAX(age)") /\ Fresh)

SelectDistinct == (qb' = select_distinct(qb, "email") /\ Fresh)

(***************************************************************************)
(* Clause order: every clause of build, in any order of calls.             *)
(***************************************************************************)
NextClauses ==
    \/ Join
    \/ JoinAs
    \/ Where({F_between})
    \/ GroupBy(ColumnLists)
    \/ Having({F_sum})
    \/ OrderBy({Sort_name})
    \/ OrderBy({Sort_id})
    \/ OrderByMultiple
    \/ Limit(Nums)
    \/ Offset(Nums)
    \/ Build

SpecClauses == InitWith({"users"}) /\ [][NextClauses]_vars

(***************************************************************************)
(* build against build_count, over every kind of configuration.            *)
(***************************************************************************)
NextCount ==
    \/ Select
    \/ Distinct
    \/ Aggregate({AggregateClause("Count", "id", Some("n"))})
    \/ Join
    \/ Where({F_between})
    \/ GroupBy(ColumnLists)
    \/ Having({F_sum})
    \/ WithSorts
    \/ Limit(Nums)
    \/ Offset(Nums)
    \/ Build
    \/ BuildCount

SpecCount == InitWith({"users"}) /\ [][NextCount]_vars

(***************************************************************************)
(* The projection: the select_* calls, distinct and aggregate.             *)
(***************************************************************************)
NextSelect ==
    \/ Select
    \/ SelectAll
    \/ SelectColumns
    \/ SelectColumn
    \/ SelectCount
    \/ SelectAggregate
    \/ SelectDistinct
    \/ Distinct
    \/ Aggregate({AggregateClause("Count", "id", Some("n"))})
    \/ Aggregate({AggregateClause("Sum", "amount", None)})
    \/ Build
    \/ BuildCount

SpecSelect == InitWith({"users"}) /\ [][NextSelect]_vars

(***************************************************************************)
(* The terminal calls, on builders over two tables with a few clauses.     *)
(***************************************************************************)
NextExec ==
    \/ Where({F_gt})
    \/ Limit({MaxNum})
    \/ Build
    \/ BuildCount
    \/ Execute
    \/ ExecuteCount
    \/ ExecuteAggregate
    \/ ExecutePaginated({Pagination(2, 4)}, {Cursor(<<Row_id(3)>>)},
                        {Cursor(<<Row_id(3), Row_id(3)>>)})

SpecExec == InitWith({"users"}) /\ [][NextExec]_vars

(***************************************************************************)
(* Conditions that bring placeholders of their own: raw conditions with    *)
(* their params, and sub-queries with filters.                             *)
(***************************************************************************)
Subqueries ==
    {select(new("orders"), <<"user_id">>),
     where(select(new("orders"), <<"user_id">>), F_gt),
     where(select(new("orders"), <<"user_id">>), F_between)}

WhereIn ==
    /\ Len(qb.where_clauses) < MaxWhere
    /\ \E subquery \in Subqueries : (qb' = where_in(qb, "id", subquery) /\ Fresh)

NextConditions ==
    \/ Where({F_y1})
    \/ WhereIn
    \/ WhereCondition(<<"age > ", "?">>)
    \/ HavingCondition(<<"COUNT(*) > ", "?">>)
    \/ Build
    \/ BuildCount

SpecConditions == InitWith({"users"}) /\ [][NextConditions]_vars

(***************************************************************************)
(* Values of every kind, bound one per filter.                             *)
(***************************************************************************)
ValueFilters ==
    {FSingle(Filter("v", "Eq", FvSingle(v))) :
        v \in {VNull, VInteger(0), VInteger(1), VReal(Finite(2)), VReal(NaN),
               VText("1"), VBlob(<<1, 255>>), VBoolean(TRUE), VBoolean(FALSE)}}

NextValues ==
    \/ Where(ValueFilters)
    \/ Build
    \/ BuildCount

SpecValues == InitWith({"users"}) /\ [][NextValues]_vars

(***************************************************************************)
(* Cloning: the caller configures a builder, clones it, and goes on to     *)
(* configure the clone while still building from the original.             *)
(***************************************************************************)
Clone ==
    /\ cp' = Some(clone(qb))
    /\ cbuilt' = None
    /\ reconfigured' = {}
    /\ UNCHANGED <<qb, built, counted, ret>>

CloneLimit(args) ==
    /\ cp # None
    /\ \E n \in args : cp' = Some(limit(cp[1], n))
    /\ cbuilt' = None
    /\ reconfigured' = reconfigured \cup {"limit"}
    /\ UNCHANGED <<qb, built, counted, ret>>

CloneOffset(args) ==
    /\ cp # None
    /\ \E n \in args : cp' = Some(offset(cp[1], n))
    /\ cbuilt' = None
    /\ reconfigured' = reconfigured \cup {"offset"}
    /\ UNCHANGED <<qb, built, counted, ret>>

CloneWhere(trees) ==
    /\ cp # None
    /\ Len(cp[1].where_clauses) < MaxWhere
    /\ \E t \in trees : cp' = Some(where(cp[1], t))
    /\ cbuilt' = None
    /\ reconfigured' = reconfigured \cup {"where_clauses"}
    /\ UNCHANGED <<qb, built, counted, ret>>

BuildClone ==
    /\ cp # None
    /\ cbuilt' = Some(build(cp[1]))
    /\ UNCHANGED <<qb, cp, reconfigured, built, counted, ret>>

NextClone ==
    \/ (cp = None /\ Where({F_gt}))
    \/ (cp = None /\ Join)
    \/ (cp = None /\ OrderByMultiple)
    \/ (cp = None /\ Limit({MaxNum}))
    \/ Clone
    \/ CloneLimit({1})
    \/ CloneOffset({1})
    \/ CloneWhere({F_y1})
    \/ BuildClone
    \/ Build
    \/ BuildCount

SpecClone == InitWith({"users"}) /\ [][NextClone]_vars

(***************************************************************************)
(* Pagination, on builders with every clause a count statement could      *)
(* inherit.                                                                *)
(***************************************************************************)
Paginations == {Pagination(2, 0), Pagination(2, 4)}

NextPaginated ==
    \/ Where({F_gt})
    \/ Join
    \/ GroupBy({<<"dept">>})
    \/ Having({F_sum})
    \/ Limit({MaxNum})
    \/ Offset({1})
    \/ Build
    \/ ExecutePaginated(Paginations, CountAnswers, {QueryFailed})
    \/ ExecutePaginated(Paginations, CountAnswers, {Cursor(<<Row_id(3), Row_id(3)>>)})

SpecPaginated == Init /\ [][NextPaginated]_vars

(***************************************************************************)
(* Reading emitted text.                                                   *)
(***************************************************************************)
\* The placeholders of a text, left to right.
PlaceholderPositions(text) == {i \in 1..Len(text) : text[i] = "?"}
NumPlaceholders(text) == Cardinality(PlaceholderPositions(text))

\* Index of the first fragment equal to kw, 0 when there is none.
IndexOf(text, kw) ==
    IF \E i \in 1..Len(text) : text[i] = kw
    THEN CHOOSE i \in 1..Len(text) :
            /\ text[i] = kw
            /\ \A j \in 1..(i - 1) : text[j] # kw
    ELSE 0

Has(text, kw) == IndexOf(text, kw) # 0

\* The text from the first fragment kw on (empty when kw is absent).
From(text, kw) ==
    IF Has(text, kw) THEN SubSeq(text, IndexOf(text, kw), Len(text)) ELSE <<>>

\* The statement as the database reads it: the k-th placeholder, in text
\* order, replaced by the k-th parameter.
TextFrag(s) == [text |-> s]
BoundFrag(v) == [bound |-> v]
Unbound(k) == [unbound |-> k]

Bind(text, params) ==
    [i \in 1..Len(text) |->
        IF text[i] = "?"
        THEN LET k == Cardinality({j \in 1..i : text[j] = "?"})
             IN  IF k <= Len(params) THEN BoundFrag(params[k]) ELSE Unbound(k)
        ELSE TextFrag(text[i])]

\* What a filter tree means, written with the values in place: the bound
\* statement a correct rendering must read as.
Texts(ss) == [i \in 1..Len(ss) |-> TextFrag(ss[i])]

MeantValue(value) ==
    CASE value.shape = "Single" -> <<BoundFrag(value_to_libsql_value(value.value))>>
      [] value.shape = "Multiple" ->
            Texts(<<"(">>)
                \o JoinWith([i \in 1..Len(value.values) |->
                                <<BoundFrag(value_to_libsql_value(value.values[i]))>>],
                            Texts(<<", ">>))
                \o Texts(<<")">>)
      [] value.shape = "Range" ->
            <<BoundFrag(value_to_libsql_value(value.min)), TextFrag(" AND "),
              BoundFrag(value_to_libsql_value(value.max))>>

RECURSIVE MeantTree(_)
MeantList(filters, sep) ==
    JoinWith([i \in 1..Len(filters) |-> MeantTree(filters[i])], Texts(<<sep>>))

MeantTree(t) ==
    CASE t.tag = "Single" ->
            IF t.filter.operator = "IsNull"
            THEN Texts(<<t.filter.column, " IS NULL">>)
            ELSE IF t.filter.operator = "IsNotNull"
            THEN Texts(<<t.filter.column, " IS NOT NULL">>)
            ELSE Texts(<<t.filter.column, " ", fmt_Operator(t.filter.operator), " ">>)
                    \o MeantValue(t.filter.value)
      [] t.tag = "And" ->
            Texts(<<"(">>) \o MeantList(t.filters, " AND ") \o Texts(<<")">>)
      [] t.tag = "Or" ->
            Texts(<<"(">>) \o MeantList(t.filters, " OR ") \o Texts(<<")">>)
      [] t.tag = "Not" ->
            Texts(<<"NOT (">>) \o MeantTree(t.filter) \o Texts(<<")">>)
      [] t.tag = "Custom" -> Texts(t.condition)

MeantFilters(b) ==
    (IF b.where_clauses # <<>>
     THEN Texts(<<" WHERE ">>) \o MeantList(b.where_clauses, " AND ")
     ELSE <<>>)
    \o (IF b.group_by # <<>> THEN Texts(GroupByClause(b)) ELSE <<>>)
    \o (IF b.having # <<>>
         THEN Texts(<<" HAVING ">>) \o MeantList(b.having, " AND ")
         ELSE <<>>)

\* The WHERE .. HAVING part of a statement built from b.
FilterPart(sql, b) ==
    LET tail == IF b.where_clauses # <<>> THEN From(sql, " WHERE ")
                ELSE IF b.group_by # <<>> THEN From(sql, " GROUP BY ")
                ELSE From(sql, " HAVING ")
        stop == IF Has(tail, " ORDER BY ") THEN IndexOf(tail, " ORDER BY ")
                ELSE IF Has(tail, " LIMIT ") THEN IndexOf(tail, " LIMIT ")
                ELSE IF Has(tail, " OFFSET ") THEN IndexOf(tail, " OFFSET ")
                ELSE Len(tail) + 1
    IN  SubSeq(tail, 1, stop - 1)

HasFilters(b) == b.where_clauses # <<>> \/ b.having # <<>>

(***************************************************************************)
(* C1.  For a builder with a non-empty WHERE or HAVING list, build and     *)
(* build_count return as many parameters as the renderer emitted `?`       *)
(* placeholders, and binding the i-th placeholder in text order to the     *)
(* i-th parameter gives the statement the filter trees mean: values in     *)
(* depth-first, left-to-right order, WHERE before HAVING.  (A `?` inside   *)
(* raw Custom text is the caller's text, not a placeholder the renderer    *)
(* emitted.)                                                               *)
(***************************************************************************)
C1_Aligned(out, b) ==
    /\ NumPlaceholders(out.sql) = Len(out.params)
    /\ Bind(FilterPart(out.sql, b), out.params) = MeantFilters(b)

C1_PlaceholdersMatchParams ==
    HasFilters(qb) =>
        /\ built # None => C1_Aligned(built[1], qb)
        /\ counted # None => C1_Aligned(counted[1], qb)

C1_Witness ==
    /\ built # None
    /\ counted # None
    /\ qb.where_clauses = <<F_deep, F_and>>
    /\ qb.having = <<F_sum>>
    /\ Len(built[1].params) = 10
    /\ Len(counted[1].params) = 10

(***************************************************************************)
(* C5.  And(children) is written `(` children joined by ` AND ` `)`,       *)
(* Or(children) `(` children joined by ` OR ` `)`, Not(child)              *)
(* `NOT (` child `)`, at every depth, and the top-level list is joined by  *)
(* ` AND ` with no enclosing parentheses; the two examples of the          *)
(* specification come out as written there.                                *)
(***************************************************************************)
\* The text of a bound statement with every bound value written `?`.
Written(frags) ==
    [i \in 1..Len(frags) |->
        IF "bound" \in DOMAIN frags[i] THEN "?" ELSE frags[i].text]

\* The WHERE clause of a statement: from " WHERE " up to the next clause.
WherePart(sql) ==
    LET tail == From(sql, " WHERE ")
        stop == IF Has(tail, " GROUP BY ") THEN IndexOf(tail, " GROUP BY ")
                ELSE IF Has(tail, " HAVING ") THEN IndexOf(tail, " HAVING ")
                ELSE IF Has(tail, " ORDER BY ") THEN IndexOf(tail, " ORDER BY ")
                ELSE IF Has(tail, " LIMIT ") THEN IndexOf(tail, " LIMIT ")
                ELSE IF Has(tail, " OFFSET ") THEN IndexOf(tail, " OFFSET ")
                ELSE Len(tail) + 1
    IN  SubSeq(tail, 1, stop - 1)

C5_Nested(out, b) ==
    /\ WherePart(out.sql) =
            <<" WHERE ">>
                \o JoinWith([i \in 1..Len(b.where_clauses) |->
                                Written(MeantTree(b.where_clauses[i]))],
                            <<" AND ">>)
    /\ b.where_clauses = <<F_and>> /\ b.having = <<>> =>
            /\ WherePart(out.sql) =
                    <<" WHERE ", "(", "x", " ", ">", " ", "?", " AND ",
                      "(", "y", " ", "=", " ", "?", " OR ", "y", " ", "=", " ", "?",
                      ")", ")">>
            /\ out.params = <<LInteger(5), LInteger(1), LInteger(2)>>
    /\ b.where_clauses = <<F_not>> /\ b.having = <<>> =>
            /\ WherePart(out.sql) = <<" WHERE ", "NOT (", "a", " ", "=", " ", "?", ")">>
            /\ out.params = <<LInteger(1)>>

C5_BooleanGroupsParenthesized ==
    qb.where_clauses # <<>> =>
        /\ built # None => C5_Nested(built[1], qb)
        /\ counted # None => C5_Nested(counted[1], qb)

C5_Witness ==
    /\ built # None
    /\ qb.where_clauses = <<F_and, F_deep>>
    /\ Has(built[1].sql, " OR ")
    /\ Has(built[1].sql, "NOT (")

\* The first example of the specification, built.
C5_WitnessExample ==
    /\ built # None
    /\ qb.where_clauses = <<F_and>>
    /\ built[1].params = <<LInteger(5), LInteger(1), LInteger(2)>>

(***************************************************************************)
(* C6.  A Single filter whose operator is no null-check is written         *)
(* `column OPERATOR_TEXT ` followed by a pattern the value shape alone     *)
(* decides: Single -> `?` with one parameter; Multiple of n values ->      *)
(* `(?, .., ?)` with n placeholders and the n values in order; Range ->    *)
(* `? AND ?` with the lower bound then the upper.                          *)
(***************************************************************************)
IsNullCheck(t) ==
    t.tag = "Single" /\ t.filter.operator \in {"IsNull", "IsNotNull"}

IsPlainSingle(t) == t.tag = "Single" /\ ~IsNullCheck(t)

Pattern(value) ==
    CASE value.shape = "Single" -> <<"?">>
      [] value.shape = "Multiple" ->
            <<"(">>
                \o JoinWith([i \in 1..Len(value.values) |-> <<"?">>], <<", ">>)
                \o <<")">>
      [] value.shape = "Range" -> <<"?", " AND ", "?">>

Carried(value) ==
    CASE value.shape = "Single" -> <<value.value>>
      [] value.shape = "Multiple" -> value.values
      [] value.shape = "Range" -> <<value.min, value.max>>

Lowered(values) ==
    [i \in 1..Len(values) |-> value_to_libsql_value(values[i])]

\* The WHERE list rendered with every plain Single filter written as the
\* specification says, the other nodes as the renderer writes them.
C6_Expected(filters) ==
    LET part(t) ==
            IF IsPlainSingle(t)
            THEN Out(<<t.filter.column, " ", fmt_Operator(t.filter.operator), " ">>
                        \o Pattern(t.filter.value),
                     Lowered(Carried(t.filter.value)))
            ELSE build_filter_operator(t)
    IN  Out(JoinWith([i \in 1..Len(filters) |-> part(filters[i]).sql], <<" AND ">>),
            Concat([i \in 1..Len(filters) |-> part(filters[i]).params]))

C6_Shape(out, b) ==
    /\ WherePart(out.sql) = <<" WHERE ">> \o C6_Expected(b.where_clauses).sql
    /\ out.params = C6_Expected(b.where_clauses).params
                        \o build_where_clause(b.having).params
    /\ b.where_clauses = <<F_in>> /\ b.having = <<>> =>
            /\ WherePart(out.sql) =
                    <<" WHERE ", "id", " ", "IN", " ", "(", "?", ", ", "?", ", ", "?", ")">>
            /\ out.params = <<LInteger(1), LInteger(2), LInteger(3)>>
    /\ b.where_clauses = <<F_between>> /\ b.having = <<>> =>
            /\ WherePart(out.sql) =
                    <<" WHERE ", "col", " ", "BETWEEN", " ", "?", " AND ", "?">>
            /\ out.params = <<LInteger(10), LInteger(20)>>

C6_ValueShapeDecidesPattern ==
    (\E i \in 1..Len(qb.where_clauses) : IsPlainSingle(qb.where_clauses[i])) =>
        /\ built # None => C6_Shape(built[1], qb)
        /\ counted # None => C6_Shape(counted[1], qb)

C6_Witness ==
    /\ built # None
    /\ qb.where_clauses = <<F_in, F_like>>
    /\ built[1].params =
            <<LInteger(1), LInteger(2), LInteger(3), LText("a"), LNull>>

(***************************************************************************)
(* C7.  A null-check Single filter is written `column IS NULL` /           *)
(* `column IS NOT NULL` and a Custom node is written verbatim; neither     *)
(* binds a parameter, whatever value the filter carries, and the           *)
(* parameters of the nodes around them keep their order.                   *)
(***************************************************************************)
BindsNothing(t) == IsNullCheck(t) \/ t.tag = "Custom"

\* The values of the nodes that bind, depth first, left to right.
RECURSIVE BoundValues(_)
BoundValuesOfList(filters) ==
    Concat([i \in 1..Len(filters) |-> BoundValues(filters[i])])

BoundValues(t) ==
    IF BindsNothing(t) THEN <<>>
    ELSE IF t.tag = "Single" THEN Carried(t.filter.value)
    ELSE IF t.tag = "Not" THEN BoundValues(t.filter)
    ELSE BoundValuesOfList(t.filters)

RECURSIVE HasNodeBindingNothing(_)
HasNodeBindingNothing(t) ==
    \/ BindsNothing(t)
    \/ t.tag = "Not" /\ HasNodeBindingNothing(t.filter)
    \/ t.tag \in {"And", "Or"}
          /\ \E i \in 1..Len(t.filters) : HasNodeBindingNothing(t.filters[i])

C7_Expected(filters) ==
    LET part(t) ==
            IF IsNullCheck(t)
            THEN <<t.filter.column,
                   IF t.filter.operator = "IsNull" THEN " IS NULL" ELSE " IS NOT NULL">>
            ELSE IF t.tag = "Custom" THEN t.condition
            ELSE build_filter_operator(t).sql
    IN  JoinWith([i \in 1..Len(filters) |-> part(filters[i])], <<" AND ">>)

C7_Silent(out, b) ==
    /\ out.params =
            Lowered(BoundValuesOfList(b.where_clauses))
                \o Lowered(BoundValuesOfList(b.having))
    /\ b.where_clauses # <<>> =>
            WherePart(out.sql) = <<" WHERE ">> \o C7_Expected(b.where_clauses)
    /\ b.having # <<>> =>
            From(out.sql, " HAVING ") = <<" HAVING ">> \o C7_Expected(b.having)

C7_NullChecksAndCustomBindNothing ==
    (\E i \in 1..Len(qb.where_clauses) : HasNodeBindingNothing(qb.where_clauses[i]))
    \/ (\E i \in 1..Len(qb.having) : HasNodeBindingNothing(qb.having[i])) =>
        /\ built # None => C7_Silent(built[1], qb)
        /\ counted # None => C7_Silent(counted[1], qb)

C7_Witness ==
    /\ built # None
    /\ qb.where_clauses = <<F_deep, F_custom>>
    /\ qb.having = <<F_notnull>>
    /\ built[1].params =
            <<LInteger(10), LInteger(20), LInteger(1), LInteger(2), LInteger(3),
              LInteger(1)>>

(***************************************************************************)
(* Clauses of an emitted statement.                                        *)
(***************************************************************************)
\* The first index >= start whose fragment is one of kws, Len(text) + 1 when
\* there is none.
FirstIn(text, kws, start) ==
    IF \E i \in start..Len(text) : text[i] \in kws
    THEN CHOOSE i \in start..Len(text) :
            /\ text[i] \in kws
            /\ \A j \in start..(i - 1) : text[j] \notin kws
    ELSE Len(text) + 1

\* The clause opened by kw: from kw up to the first later fragment of stops.
Clause(sql, kw, stops) ==
    IF Has(sql, kw)
    THEN SubSeq(sql, IndexOf(sql, kw), FirstIn(sql, stops, IndexOf(sql, kw) + 1) - 1)
    ELSE <<>>

ClauseKeywords ==
    <<" FROM ", " WHERE ", " GROUP BY ", " HAVING ", " ORDER BY ", " LIMIT ",
      " OFFSET ">>

KeywordsFrom(k) == {ClauseKeywords[i] : i \in k..Len(ClauseKeywords)}

\* The number a run of digit fragments reads as, -1 when it is no number.
IsDigit(f) == \E d \in 0..9 : Digit[d + 1] = f
DigitValue(f) == CHOOSE d \in 0..9 : Digit[d + 1] = f
RECURSIVE Decimal(_)
Decimal(frags) ==
    IF frags = <<>> \/ \E i \in 1..Len(frags) : ~IsDigit(frags[i]) THEN -1
    ELSE IF Len(frags) = 1 THEN DigitValue(frags[1])
    ELSE 10 * Decimal(SubSeq(frags, 1, Len(frags) - 1)) + DigitValue(frags[Len(frags)])

(***************************************************************************)
(* C2.  build_count emits its fixed count projection followed by the FROM, *)
(* JOIN, WHERE, GROUP BY and HAVING text build emits for the same builder, *)
(* with build's parameter list, and never DISTINCT, the select-column      *)
(* list, the aggregate clause, ORDER BY, LIMIT or OFFSET.                  *)
(***************************************************************************)
\* FROM .. HAVING of a statement: from " FROM " up to ORDER BY / LIMIT / OFFSET.
Middle(sql) == Clause(sql, " FROM ", KeywordsFrom(5))

C2_CountDropsTheRest(out, b) ==
    /\ Head(out.sql) = "SELECT COUNT(*)"
    /\ ~Has(out.sql, "DISTINCT ") /\ ~Has(out.sql, " ORDER BY ")
    /\ ~Has(out.sql, " LIMIT ") /\ ~Has(out.sql, " OFFSET ")
    /\ \A i \in 1..Len(b.select_columns) : ~Has(out.sql, b.select_columns[i])
    /\ b.aggregate # None =>
            /\ ~Has(out.sql, fmt_Aggregate(b.aggregate[1].function))
            /\ ~Has(out.sql, " AS ")

C2_CountMatchesBuild ==
    counted # None =>
        /\ C2_CountDropsTheRest(counted[1], qb)
        /\ built # None =>
                /\ Tail(counted[1].sql) = Middle(built[1].sql)
                /\ counted[1].params = built[1].params

C2_Witness ==
    /\ built # None
    /\ counted # None
    /\ qb.distinct
    /\ qb.aggregate # None
    /\ qb.select_columns = Cols_idname
    /\ Len(qb.joins) = 2
    /\ qb.where_clauses # <<>>
    /\ qb.group_by # <<>>
    /\ qb.having # <<>>
    /\ qb.order_by # <<>>
    /\ qb.limit = Some(MaxNum)
    /\ qb.offset = Some(1)
    /\ Len(counted[1].params) = 3

(***************************************************************************)
(* C3.  Whatever the order of the configuration calls, build emits SELECT  *)
(* .. FROM, the JOINs in insertion order, WHERE, GROUP BY, HAVING, ORDER   *)
(* BY in insertion order, LIMIT, OFFSET, in that order; an optional clause *)
(* is there exactly when it was configured; LIMIT and OFFSET are written   *)
(* as integer literals and add nothing to the parameter list.              *)
(***************************************************************************)
C3_JoinsWanted(b) ==
    Concat([i \in 1..Len(b.joins) |->
        <<" ", fmt_JoinType(b.joins[i].join_type), " ", b.joins[i].table>>
            \o (IF b.joins[i].alias = None THEN <<>>
                 ELSE <<" AS ", b.joins[i].alias[1]>>)
            \o <<" ON ">> \o b.joins[i].condition])

C3_OrderByWanted(b) ==
    JoinWith([i \in 1..Len(b.order_by) |->
                <<b.order_by[i].column, " ", fmt_SortOrder(b.order_by[i].order)>>],
             <<", ">>)

C3_Ordered(out, b) ==
    LET sql == out.sql
        from == IndexOf(sql, " FROM ")
    IN  /\ Head(sql) = "SELECT "
        /\ from # 0
        /\ sql[from + 1] = b.table
        /\ \A i, j \in 1..Len(ClauseKeywords) :
                i < j /\ Has(sql, ClauseKeywords[i]) /\ Has(sql, ClauseKeywords[j]) =>
                    IndexOf(sql, ClauseKeywords[i]) < IndexOf(sql, ClauseKeywords[j])
        /\ Has(sql, " ON ") <=> b.joins # <<>>
        /\ Has(sql, " WHERE ") <=> b.where_clauses # <<>>
        /\ Has(sql, " GROUP BY ") <=> b.group_by # <<>>
        /\ Has(sql, " HAVING ") <=> b.having # <<>>
        /\ Has(sql, " ORDER BY ") <=> b.order_by # <<>>
        /\ Has(sql, " LIMIT ") <=> b.limit # None
        /\ Has(sql, " OFFSET ") <=> b.offset # None
        /\ SubSeq(sql, from + 2, FirstIn(sql, KeywordsFrom(2), from + 2) - 1)
                = C3_JoinsWanted(b)
        /\ b.order_by # <<>> =>
                Clause(sql, " ORDER BY ", KeywordsFrom(6))
                    = <<" ORDER BY ">> \o C3_OrderByWanted(b)
        /\ b.limit # None =>
                Decimal(Tail(Clause(sql, " LIMIT ", KeywordsFrom(7)))) = b.limit[1]
        /\ b.offset # None =>
                Decimal(Tail(Clause(sql, " OFFSET ", {}))) = b.offset[1]
        /\ NumPlaceholders(sql) = Len(out.params)
        /\ out.params =
                Lowered(BoundValuesOfList(b.where_clauses))
                    \o Lowered(BoundValuesOfList(b.having))

C3_ClauseOrder == built # None => C3_Ordered(built[1], qb)

\* Every clause present, configured from OFFSET backwards to the JOINs.
C3_Witness ==
    /\ built # None
    /\ qb.joins = <<Join_posts, Join_orders>>
    /\ qb.where_clauses # <<>>
    /\ qb.group_by # <<>>
    /\ qb.having # <<>>
    /\ qb.order_by = <<Sort_id, Sort_name>>
    /\ qb.limit = Some(MaxNum)
    /\ qb.offset = Some(0)
    /\ Len(built[1].params) = 3

(***************************************************************************)
(* C4.  Once aggregate(..) has been called the builder keeps its aggregate *)
(* clause, and every build emits the projection FUNCTION(column)[ AS       *)
(* alias], after DISTINCT when the flag is set, and never the select       *)
(* column list, whatever select_* calls were made before or after.         *)
(***************************************************************************)
Projection(sql) == SubSeq(sql, 2, IndexOf(sql, " FROM ") - 1)

C4_AggregateProjected ==
    built # None /\ qb.aggregate # None =>
        LET agg == qb.aggregate[1]
        IN  /\ Head(built[1].sql) = "SELECT "
            /\ Projection(built[1].sql) =
                    (IF qb.distinct THEN <<"DISTINCT ">> ELSE <<>>)
                        \o <<fmt_Aggregate(agg.function), "(", agg.column, ")">>
                        \o (IF agg.alias = None THEN <<>> ELSE <<" AS ", agg.alias[1]>>)
            /\ qb.select_columns # <<>> =>
                    Projection(built[1].sql)
                        # JoinWith([i \in 1..Len(qb.select_columns) |->
                                        <<qb.select_columns[i]>>], <<", ">>)

C4_AggregateWins ==
    /\ []C4_AggregateProjected
    /\ [][qb.aggregate # None => qb'.aggregate # None]_vars

C4_Witness ==
    /\ built # None
    /\ qb.aggregate = Some(AggregateClause("Count", "id", Some("n")))
    /\ qb.select_columns = <<"email">>
    /\ qb.distinct
    /\ Has(built[1].sql, "DISTINCT ")

(***************************************************************************)
(* C8.  A terminal call (build, build_count, execute, execute_count,       *)
(* execute_aggregate, execute_paginated) leaves every field of the builder *)
(* as it was, and as long as only terminal calls are made build and        *)
(* build_count return the same (sql, params) every time they are called.   *)
(***************************************************************************)
\* The step is a terminal call: it returns something, or returns again.
C8_TerminalStep ==
    \/ built' # None /\ built' # built
    \/ counted' # None /\ counted' # counted
    \/ ret'.op # "none" /\ ret' # ret

C8_SameOutput ==
    /\ built # None /\ built' # None => built' = built
    /\ counted # None /\ counted' # None => counted' = counted

C8_TerminalCallsLeaveBuilder ==
    [][(C8_TerminalStep => qb' = qb) /\ C8_SameOutput]_vars

\* build, build_count and a paginated execution have all been called on one
\* configured builder.
C8_Witness ==
    /\ qb.where_clauses # <<>>
    /\ qb.limit = Some(MaxNum)
    /\ built # None
    /\ counted # None
    /\ ret.op = "execute_paginated"
    /\ ret.result.ok
    /\ Len(ret.stmts) = 2

(***************************************************************************)
(* C9.  Configuring a clone leaves the original builder and what build and *)
(* build_count return for it as they were, and what build returns for the  *)
(* clone differs from what it returns for the original only in the clauses *)
(* set on the clone since it was cloned.                                   *)
(***************************************************************************)
\* The clause of a statement a builder field is rendered into.
C9_ClauseOf(sql, field) ==
    CASE field = "head" -> SubSeq(sql, 1, FirstIn(sql, KeywordsFrom(2), 1) - 1)
      [] field = "where_clauses" -> Clause(sql, " WHERE ", KeywordsFrom(3))
      [] field = "group_by" -> Clause(sql, " GROUP BY ", KeywordsFrom(4))
      [] field = "having" -> Clause(sql, " HAVING ", KeywordsFrom(5))
      [] field = "order_by" -> Clause(sql, " ORDER BY ", KeywordsFrom(6))
      [] field = "limit" -> Clause(sql, " LIMIT ", KeywordsFrom(7))
      [] field = "offset" -> Clause(sql, " OFFSET ", {})

C9_Fields ==
    {"head", "where_clauses", "group_by", "having", "order_by", "limit", "offset"}

C9_DiffersOnlyWhereReconfigured ==
    cp # None /\ cbuilt # None /\ built # None =>
        /\ \A f \in C9_Fields \ reconfigured :
                C9_ClauseOf(cbuilt[1].sql, f) = C9_ClauseOf(built[1].sql, f)
        /\ "where_clauses" \notin reconfigured /\ "having" \notin reconfigured =>
                cbuilt[1].params = built[1].params

C9_OriginalUntouched ==
    cp' # cp \/ cbuilt' # cbuilt =>
        /\ qb' = qb
        /\ built' = built
        /\ counted' = counted

C9_CloneIsIndependent ==
    /\ []C9_DiffersOnlyWhereReconfigured
    /\ [][C9_OriginalUntouched /\ C8_SameOutput]_vars

\* A builder with filters, sorts and a limit was built, cloned, the clone
\* given another limit and an offset, and both built.
C9_Witness ==
    /\ cp # None /\ cbuilt # None /\ built # None /\ counted # None
    /\ "limit" \in reconfigured /\ "offset" \in reconfigured
    /\ "where_clauses" \notin reconfigured
    /\ qb.where_clauses # <<>>
    /\ qb.order_by # <<>>
    /\ qb.limit = Some(MaxNum)
    /\ cp[1].limit = Some(1)
    /\ cbuilt[1].sql # built[1].sql
    /\ Has(cbuilt[1].sql, " ORDER BY ")

(***************************************************************************)
(* C10.  execute_paginated first issues a count statement that carries the *)
(* builder's table name and nothing else of it, with no parameters, then   *)
(* the statement build returns for the builder with its LIMIT and OFFSET   *)
(* replaced by the pagination's, with build's parameters; the total it     *)
(* returns is the number the count statement came back with.               *)
(***************************************************************************)
\* The count statement was answered with a row, or with no row at all.
C10_CountAnswered(answer) ==
    /\ answer.answer = "cursor"
    /\ answer.items # <<>> => Head(answer.items).item = "row"

\* The count statement came back with a number: an integer in the first
\* column of its first row.
C10_CountIsNumber(answer) ==
    /\ C10_CountAnswered(answer)
    /\ answer.items # <<>>
    /\ Head(answer.items).columns # <<>>
    /\ Head(answer.items).columns[1].value # None
    /\ Head(answer.items).columns[1].value[1].native = "Integer"

\* A statement up to its LIMIT / OFFSET tail.
C10_BeforePage(sql) == SubSeq(sql, 1, FirstIn(sql, KeywordsFrom(6), 1) - 1)

C10_Page(sql) == SubSeq(sql, FirstIn(sql, KeywordsFrom(6), 1), Len(sql))

C10_DataStatement(data, pagination) ==
    /\ Decimal(Tail(Clause(data.sql, " LIMIT ", {" OFFSET "}))) = pagination.limit
    /\ Decimal(Tail(Clause(data.sql, " OFFSET ", {}))) = pagination.offset
    /\ C10_Page(data.sql) =
            Clause(data.sql, " LIMIT ", {" OFFSET "}) \o Clause(data.sql, " OFFSET ", {})
    /\ built # None =>
            /\ C10_BeforePage(data.sql) = C10_BeforePage(built[1].sql)
            /\ data.params = built[1].params

C10_PaginatedStatements ==
    ret.op = "execute_paginated" =>
        /\ Len(ret.stmts) \in {1, 2}
        /\ ret.stmts[1] =
                [sql |-> <<"SELECT COUNT(*)", " FROM ", qb.table>>, params |-> <<>>]
        /\ Len(ret.stmts) = 2 <=> C10_CountAnswered(ret.answers[1])
        /\ Len(ret.stmts) = 2 => C10_DataStatement(ret.stmts[2], ret.args[1])
        /\ ret.result.ok =>
                /\ ret.result.value.pagination = ret.args[1]
                /\ C10_CountIsNumber(ret.answers[1]) =>
                        ret.result.value.total =
                            Head(ret.answers[1].items).columns[1].value[1].i

\* A page of a joined, filtered, grouped builder with a limit and an offset
\* of its own: the count came back as 3 and two records were returned.
C10_Witness ==
    /\ ret.op = "execute_paginated"
    /\ ret.result.ok
    /\ ret.args = <<Pagination(2, 4)>>
    /\ ret.result.value.total = 3
    /\ Len(ret.result.value.data) = 2
    /\ built # None
    /\ qb.table = "orders"
    /\ qb.where_clauses # <<>> /\ qb.joins # <<>>
    /\ qb.group_by # <<>> /\ qb.having # <<>>
    /\ qb.limit = Some(MaxNum) /\ qb.offset = Some(1)
    /\ Has(ret.stmts[2].sql, " WHERE ")
    /\ Has(ret.stmts[2].sql, " HAVING ")

(***************************************************************************)
(* C11.  execute_count returns Ok(n) exactly when the count statement      *)
(* yields a first row whose first column is the integer n; with no row, or *)
(* a first column that is missing, unreadable or no integer, it returns a  *)
(* Query error, and a query call the connection fails is returned as that  *)
(* error, never as a count.                                                *)
(***************************************************************************)
C11_QueryError(result) ==
    /\ ~result.ok
    /\ result.error \in {"Query: No count result", "Query: Failed to get count"}

C11_CountOrError ==
    ret.op = "execute_count" =>
        LET answer == ret.answers[1]
        IN  /\ Len(ret.stmts) = 1
            /\ counted # None => ret.stmts[1] = counted[1]
            /\ ret.result.ok <=> C10_CountIsNumber(answer)
            /\ ret.result.ok =>
                    ret.result.value = Head(answer.items).columns[1].value[1].i
            /\ answer.answer = "error" => ret.result = Err("Db")
            /\ answer.answer = "cursor" /\ answer.items = <<>> =>
                    C11_QueryError(ret.result)
            /\ /\ C10_CountAnswered(answer)
               /\ answer.items # <<>>
               /\ ~C10_CountIsNumber(answer)
               => C11_QueryError(ret.result)

\* A filtered builder was counted and the first column came back as text.
C11_Witness ==
    /\ ret.op = "execute_count"
    /\ ret.answers = <<Cursor(<<Row_text>>)>>
    /\ ret.result = Err("Query: Failed to get count")
    /\ qb.where_clauses # <<>>
    /\ counted # None

(***************************************************************************)
(* C12.  execute returns Ok exactly when every item of the cursor is a row *)
(* that converts into T, and then with one record per row in cursor order; *)
(* a row that cannot be fetched or converted, at whatever position, makes  *)
(* the whole call an error that carries no record.                         *)
(***************************************************************************)
\* The row has an integer under the name "id" (the last column of that
\* name counts), which is what T { id: i64 } asks for.
C12_Converts(item) ==
    /\ item.item = "row"
    /\ \E k \in 1..Len(item.columns) :
            /\ item.columns[k].name = Some("id")
            /\ \A j \in (k + 1)..Len(item.columns) : item.columns[j].name # Some("id")
            /\ item.columns[k].value # None
            /\ item.columns[k].value[1].native = "Integer"

C12_IdOf(item) ==
    LET k == CHOOSE k \in 1..Len(item.columns) :
                /\ item.columns[k].name = Some("id")
                /\ \A j \in (k + 1)..Len(item.columns) : item.columns[j].name # Some("id")
    IN  item.columns[k].value[1].i

C12_AllOrNothing ==
    ret.op = "execute" =>
        LET answer == ret.answers[1]
            items == answer.items
        IN  /\ Len(ret.stmts) = 1
            /\ built # None => ret.stmts[1] = built[1]
            /\ answer.answer = "error" => ret.result = Err("Db")
            /\ answer.answer = "cursor" =>
                    /\ ret.result.ok <=> \A k \in 1..Len(items) : C12_Converts(items[k])
                    /\ ret.result.ok =>
                            /\ Len(ret.result.value) = Len(items)
                            /\ \A k \in 1..Len(items) :
                                    ret.result.value[k] = [id |-> C12_IdOf(items[k])]
            /\ ~ret.result.ok => "value" \notin DOMAIN ret.result

\* A row that does not convert came second, after one that did.
C12_Witness ==
    /\ ret.op = "execute"
    /\ ret.answers = <<Cursor(<<Row_id(3), Row_text>>)>>
    /\ ret.result = Err("Deserialize")
    /\ built # None

\* Two rows converted and came back in cursor order.
C12_WitnessOk ==
    /\ ret.op = "execute"
    /\ ret.answers = <<Cursor(<<Row_id(3), Row_id(0)>>)>>
    /\ ret.result = Ok(<<[id |-> 3], [id |-> 0]>>)

(***************************************************************************)
(* C13.  Every Value a filter carries is bound as a native value: a        *)
(* Boolean as Integer 1 (true) or 0 (false), any other kind as the native  *)
(* value of the same kind with the same payload; so a Boolean(true) and an *)
(* Integer(1) are the same parameter in the list build returns.            *)
(***************************************************************************)
\* The WHERE list is made of Single filters carrying one value each.
C13_OneValueEach(b) ==
    \A k \in 1..Len(b.where_clauses) :
        /\ IsPlainSingle(b.where_clauses[k])
        /\ b.where_clauses[k].filter.value.shape = "Single"

C13_ValueOf(b, k) == b.where_clauses[k].filter.value.value

C13_SameKindSamePayload(value, native) ==
    CASE value.kind = "Null" -> native = [native |-> "Null"]
      [] value.kind = "Integer" -> native = [native |-> "Integer", i |-> value.i]
      [] value.kind = "Real" -> native = [native |-> "Real", f |-> value.f]
      [] value.kind = "Text" -> native = [native |-> "Text", s |-> value.s]
      [] value.kind = "Blob" -> native = [native |-> "Blob", bytes |-> value.bytes]
      [] value.kind = "Boolean" ->
            native = [native |-> "Integer", i |-> IF value.b THEN 1 ELSE 0]

C13_Bound(out, b) ==
    /\ Len(out.params) = Len(b.where_clauses)
    /\ \A k \in 1..Len(b.where_clauses) :
            C13_SameKindSamePayload(C13_ValueOf(b, k), out.params[k])
    /\ \A j, k \in 1..Len(b.where_clauses) :
            /\ C13_ValueOf(b, j) = VBoolean(TRUE)
            /\ C13_ValueOf(b, k) = VInteger(1)
            => out.params[j] = out.params[k]

C13_ValuesBoundByKind ==
    C13_OneValueEach(qb) =>
        /\ built # None => C13_Bound(built[1], qb)
        /\ counted # None => C13_Bound(counted[1], qb)

\* A Boolean(true) and an Integer(1) were bound side by side.
C13_Witness ==
    /\ built # None
    /\ Len(qb.where_clauses) = 2
    /\ C13_OneValueEach(qb)
    /\ C13_ValueOf(qb, 1) = VBoolean(TRUE)
    /\ C13_ValueOf(qb, 2) = VInteger(1)
    /\ built[1].params = <<LInteger(1), LInteger(1)>>

(***************************************************************************)
(* C14.  For a builder configured with where_in or with where_condition /  *)
(* having_condition, the statement build returns has as many `?`           *)
(* placeholders as parameters: the parameters of the sub-query's filters   *)
(* and the params passed with a condition are in the list.                 *)
(***************************************************************************)
C14_PlaceholdersHaveParams ==
    /\ built # None => NumPlaceholders(built[1].sql) = Len(built[1].params)
    /\ counted # None => NumPlaceholders(counted[1].sql) = Len(counted[1].params)

(***************************************************************************)
(* C15.  execute_paginated issues the count statement first.  When the     *)
(* connection fails the count statement the call returns that error and    *)
(* issues no data statement.  When the count statement comes back with no  *)
(* row, or with a first column that is no integer, the call goes on to the *)
(* data statement and, if that succeeds, returns total = 0, where          *)
(* execute_count given the same answer returns a Query error.              *)
(***************************************************************************)
\* The count statement was answered, but not with a number.
C15_NoCount(answer) == C10_CountAnswered(answer) /\ ~C10_CountIsNumber(answer)

C15_IsCountStatement(stmt) == Head(stmt.sql) = "SELECT COUNT(*)"

C15_CountFirstAndLenient ==
    ret.op = "execute_paginated" =>
        LET count_answer == ret.answers[1]
            data_answer == ret.answers[2]
        IN  /\ Len(ret.stmts) >= 1
            /\ C15_IsCountStatement(ret.stmts[1])
            /\ \A k \in 2..Len(ret.stmts) : ~C15_IsCountStatement(ret.stmts[k])
            /\ count_answer.answer = "error" =>
                    /\ ret.result = Err("Db")
                    /\ Len(ret.stmts) = 1
            /\ C15_NoCount(count_answer) =>
                    /\ Len(ret.stmts) = 2
                    /\ ret.result.ok <=> execute(qb, data_answer).result.ok
                    /\ ret.result.ok => ret.result.value.total = 0
                    /\ ~ret.result.ok => ~C11_QueryError(ret.result)
                    /\ C11_QueryError(execute_count(qb, count_answer).result)

\* The count of a filtered builder came back as text; the page was returned
\* with a total of zero.
C15_Witness ==
    /\ ret.op = "execute_paginated"
    /\ ret.answers[1] = Cursor(<<Row_text>>)
    /\ ret.result.ok
    /\ ret.result.value.total = 0
    /\ Len(ret.result.value.data) = 2
    /\ Len(ret.stmts) = 2
    /\ qb.where_clauses # <<>>

\* The connection failed the count statement: one statement, an error.
C15_WitnessRejected ==
    /\ ret.op = "execute_paginated"
    /\ ret.answers[1] = QueryFailed
    /\ ret.result = Err("Db")
    /\ Len(ret.stmts) = 1
    /\ qb.where_clauses # <<>>

====
